---- MODULE Spec2Model ----
(***************************************************************************)
(* Model of umsgpack_conn.py: the length-prefixed framing written by       *)
(* UMsgPacker.pack_obj / Client.send, the incremental parser in            *)
(* ConnectionHandler.run, and the listener life cycle of Server            *)
(* (serve_forever, _serve_forever, shutdown, is_alive).                    *)
(*                                                                         *)
(* Byte strings are sequences of integers in 0..255 (the module is         *)
(* modelled with the byte-string semantics of str it was written for).     *)
(* A 32-bit unsigned value as produced by struct.unpack("<I", ..) is kept  *)
(* as two 16-bit halves [hi, lo] (value = hi * 65536 + lo), because the    *)
(* values 2^31 .. 2^32-1 cannot be written as one TLC integer.             *)
(***************************************************************************)
EXTENDS Integers, Sequences, FiniteSets, TLC

\* ---------------------------------------------------------------- bounds
MaxLen == 2        \* longest payload whose bytes are written out
MaxFrames == 2     \* frames (well-formed or not) a peer writes per connection
NConns == 2        \* connections that may exist at the same time

\* ------------------------------------------------------ program constants
MAX_INT32 == 2147483647
BUFFER_SIZE == 1024 * 8

None == "None"
Unset == "unset"                 \* attribute never assigned (hasattr is False)
ListenSock == "lsock"            \* the one socket object _serve_forever creates

Conns == 1 .. NConns
AppThreads == {"app1", "app2"}   \* application threads calling Server.shutdown
ServeThread == "serve"           \* the thread running _serve_forever
Threads == AppThreads \cup {ServeThread}

PayloadByte == {0, 1}
Min(a, b) == IF a < b THEN a ELSE b

RECURSIVE SeqsUpTo(_, _)
SeqsUpTo(S, k) ==
    IF k = 0 THEN {<<>>}
    ELSE LET prev == SeqsUpTo(S, k - 1)
         IN  prev \cup {Append(s, x) : s \in prev, x \in S}

\* What umsgpack.packb returns for the objects the model sends: packb never
\* returns an empty string, so these are the non-empty byte strings.
PackedObjs == SeqsUpTo(PayloadByte, MaxLen) \ {<<>>}

\* A message handed to the framing step: its length and its bytes.  The one
\* message too long to write out keeps its length only (body left empty).
Materialised(body) == [len |-> Len(body), body |-> body]
OversizeMsg == [len |-> MAX_INT32, body |-> <<>>]
ClientMsgs == {Materialised(b) : b \in PackedObjs} \cup {OversizeMsg}

\* Length prefixes that decode to a value outside [0, 2^31-1).
BadPrefixes == { <<255, 255, 255, 127>>, <<255, 255, 255, 255>> }

\* ------------------------------------------------------------ struct "<I"
struct_pack_I(n) ==
    << n % 256, (n \div 256) % 256, (n \div 65536) % 256, (n \div 16777216) % 256 >>

struct_unpack_I(b) == [lo |-> b[1] + 256 * b[2], hi |-> b[3] + 256 * b[4]]

U32Zero == [lo |-> 0, hi |-> 0]
U32IsZero(u) == u.hi = 0 /\ u.lo = 0
\* number_of_bytes >= 0 on the unpacked value
U32GeZero(u) == u.hi >= 0 /\ u.lo >= 0
\* k < u for a buffer length k (always below 65536 in the model)
LenLtU32(k, u) == u.hi > 0 \/ k < u.lo
\* u < MAX_INT32
U32LtMaxInt32(u) ==
    \/ u.hi < MAX_INT32 \div 65536
    \/ u.hi = MAX_INT32 \div 65536 /\ u.lo < MAX_INT32 % 65536

\* data[:u] and data[u:]
SliceTo(d, u) == IF u.hi > 0 THEN d ELSE SubSeq(d, 1, Min(u.lo, Len(d)))
SliceFrom(d, u) == IF u.hi > 0 THEN <<>> ELSE SubSeq(d, Min(u.lo, Len(d)) + 1, Len(d))

\* ------------------------------------------------------ UMsgPacker.pack_obj
\* mutant: the length test off by one
pack_obj_accepts_off_by_one(n) == n <= MAX_INT32

pack_obj_accepts(n) == n < MAX_INT32

pack_obj(msg) ==
    IF pack_obj_accepts(msg.len)
    THEN [raised |-> FALSE, bytes |-> struct_pack_I(msg.len) \o msg.body]
    ELSE [raised |-> TRUE, bytes |-> <<>>]

VARIABLES
    \* ---- per connection
    conn,              \* "none" | "pending" (connected, in the listen backlog) | "accepted"
    peer,              \* remote end: "open" | "closed" (orderly close) | "reset"
    wire,              \* bytes written by the remote end and not yet returned by recv
    run_pc,            \* ConnectionHandler.run: "none" | "top" | "recv" | "deliver" | "done"
    data,              \* run's local data
    number_of_bytes,   \* run's local number_of_bytes
    connection_closed, \* self.connection.close() was called by run
    exit_kind,         \* how run ended: "none" | "disconnect" | "assert" | "handler"
    handled,           \* payloads passed to _handle_msg so far, in order
    sent,              \* payloads the remote end framed so far, in order (history)
    malformed,         \* the remote end wrote a prefix from BadPrefixes (history)
    eof_seen,          \* empty reads so far: 0 none, 1 an odd number, 2 an even number (history)
    send_result,       \* outcome of the remote Client's last send call
    \* ---- Server
    _block, _shutdown_event, _sock,
    lsock,             \* listening socket: "none" | "listening" | "closed"
    main_pc,           \* serve_forever's caller
    serve_pc,          \* position in _serve_forever
    serve_sock,        \* _serve_forever's local sock
    fd_ready,          \* fd_sets[0] is non-empty
    serve_raised,      \* _serve_forever left its loop by an exception
    sd_pc,             \* per thread: position in Server.shutdown
    sd_sock,           \* per thread: shutdown's local sock
    sd_returned,       \* some call of Server.shutdown has returned (history)
    \* ---- further calls made by the application
    gp_pc,             \* position in Server.get_port
    gp_result,         \* what get_port gave its caller: "none" | "port" | "error"
    second_pc          \* a second call of Server.serve_forever

connVars == << peer, wire, run_pc, data, number_of_bytes, connection_closed,
               exit_kind, handled, sent, malformed, eof_seen, send_result >>
serverVars == << _block, _shutdown_event, _sock, lsock, main_pc, serve_pc,
                 serve_sock, fd_ready, serve_raised, sd_pc, sd_sock, sd_returned >>
callVars == << gp_pc, gp_result, second_pc >>
vars == << conn, connVars, serverVars, callVars >>

NoSend == [len |-> 0, raised |-> FALSE, wrote |-> 0, calls |-> 0]

InitConns ==
    /\ peer = [c \in Conns |-> "open"]
    /\ wire = [c \in Conns |-> <<>>]
    /\ data = [c \in Conns |-> <<>>]
    /\ number_of_bytes = [c \in Conns |-> U32Zero]
    /\ connection_closed = [c \in Conns |-> FALSE]
    /\ exit_kind = [c \in Conns |-> "none"]
    /\ handled = [c \in Conns |-> <<>>]
    /\ sent = [c \in Conns |-> <<>>]
    /\ malformed = [c \in Conns |-> FALSE]
    /\ eof_seen = [c \in Conns |-> 0]
    /\ send_result = [c \in Conns |-> NoSend]

InitServer ==
    /\ _block = None
    /\ _shutdown_event = FALSE
    /\ _sock = Unset
    /\ lsock = "none"
    /\ main_pc = "idle"
    /\ serve_pc = "idle"
    /\ serve_sock = None
    /\ fd_ready = FALSE
    /\ serve_raised = FALSE
    /\ sd_pc = [t \in Threads |-> "idle"]
    /\ sd_sock = [t \in Threads |-> None]
    /\ sd_returned = FALSE
    /\ gp_pc = "idle"
    /\ gp_result = "none"
    /\ second_pc = "idle"

\* The listener has not been started and no connection exists.
Init ==
    /\ conn = [c \in Conns |-> "none"]
    /\ run_pc = [c \in Conns |-> "none"]
    /\ InitConns
    /\ InitServer

\* Client.__init__ with a connection_handler_class: connection 1 is
\* established and its ConnectionHandler thread has been started.
InitFrame ==
    /\ conn = [c \in Conns |-> IF c = 1 THEN "accepted" ELSE "none"]
    /\ run_pc = [c \in Conns |-> IF c = 1 THEN "top" ELSE "none"]
    /\ InitConns
    /\ InitServer

\* ============================================================ remote end
FramesWritten(c) == Len(sent[c]) + (IF malformed[c] THEN 1 ELSE 0)
CanWrite(c) == conn[c] # "none" /\ peer[c] = "open" /\ FramesWritten(c) < MaxFrames

\* Client.send(obj): self._sock.sendall(self.pack_obj(obj)), msg = packb(obj)
ClientSend(c, msg) ==
    /\ CanWrite(c)
    /\ LET r == pack_obj(msg)
           w == IF r.raised THEN wire[c] ELSE wire[c] \o r.bytes
       IN  /\ wire' = [wire EXCEPT ![c] = w]
           /\ sent' = [sent EXCEPT ![c] = IF r.raised THEN @ ELSE Append(@, msg.body)]
           /\ send_result' = [send_result EXCEPT ![c] =
                 [len |-> msg.len, raised |-> r.raised,
                  wrote |-> Len(w) - Len(wire[c]), calls |-> 1]]
    /\ UNCHANGED << conn, peer, run_pc, data, number_of_bytes, connection_closed,
                    exit_kind, handled, malformed, eof_seen, serverVars >>
    /\ UNCHANGED callVars

\* A remote end that speaks the wire format directly writes the frame of
\* the empty payload: prefix 0 and no payload bytes.
PeerWriteEmptyFrame(c) ==
    /\ CanWrite(c)
    /\ wire' = [wire EXCEPT ![c] = @ \o struct_pack_I(0)]
    /\ sent' = [sent EXCEPT ![c] = Append(@, <<>>)]
    /\ UNCHANGED << conn, peer, run_pc, data, number_of_bytes, connection_closed,
                    exit_kind, handled, malformed, eof_seen, send_result, serverVars >>
    /\ UNCHANGED callVars

\* A remote end writes four bytes that decode to a disallowed length.
PeerWriteBadPrefix(c, pre) ==
    /\ CanWrite(c)
    /\ ~malformed[c]
    /\ wire' = [wire EXCEPT ![c] = @ \o pre]
    /\ malformed' = [malformed EXCEPT ![c] = TRUE]
    /\ UNCHANGED << conn, peer, run_pc, data, number_of_bytes, connection_closed,
                    exit_kind, handled, sent, eof_seen, send_result, serverVars >>
    /\ UNCHANGED callVars

\* The remote end closes its socket (recv then returns '' once the wire is
\* drained) or the connection is reset (recv then raises).
PeerClose(c, how) ==
    /\ conn[c] # "none"
    /\ peer[c] = "open"
    /\ peer' = [peer EXCEPT ![c] = how]
    /\ UNCHANGED << conn, wire, run_pc, data, number_of_bytes, connection_closed,
                    exit_kind, handled, sent, malformed, eof_seen, send_result,
                    serverVars >>
    /\ UNCHANGED callVars

\* ================================================= ConnectionHandler.run
\* while not data or number_of_bytes == 0 or data.__len__() < number_of_bytes
WaitCond(d, n) == d = <<>> \/ U32IsZero(n) \/ LenLtU32(Len(d), n)

\* One step of run: new locals, new position; leaving run closes the socket
\* (the finally clause).
WorkerStep(c, d, n, p, k) ==
    /\ data' = [data EXCEPT ![c] = d]
    /\ number_of_bytes' = [number_of_bytes EXCEPT ![c] = n]
    /\ run_pc' = [run_pc EXCEPT ![c] = p]
    /\ exit_kind' = [exit_kind EXCEPT ![c] = k]
    /\ connection_closed' = [connection_closed EXCEPT ![c] = (p = "done")]

\* Take the prefix off d when no length is pending and 4 bytes are there;
\* then test the inner loop's condition.
ParseAndTest(c, d) ==
    LET parse == U32IsZero(number_of_bytes[c]) /\ Len(d) >= 4
        n1 == IF parse THEN struct_unpack_I(SubSeq(d, 1, 4)) ELSE number_of_bytes[c]
        d1 == IF parse THEN SubSeq(d, 5, Len(d)) ELSE d
    IN  IF parse /\ ~U32GeZero(n1)
        THEN WorkerStep(c, d, n1, "done", "assert")
        ELSE WorkerStep(c, d1, n1, IF WaitCond(d1, n1) THEN "recv" ELSE "deliver", "none")

\* top of the outer loop, then the inner loop's test
RunTop(c) ==
    /\ run_pc[c] = "top"
    /\ ParseAndTest(c, data[c])
    /\ UNCHANGED << conn, peer, wire, handled, sent, malformed, eof_seen,
                    send_result, serverVars >>
    /\ UNCHANGED callVars

\* recv returns the next k bytes
RunRecvChunk(c, k) ==
    /\ run_pc[c] = "recv"
    /\ peer[c] # "reset"
    /\ k \in 1 .. Min(Len(wire[c]), BUFFER_SIZE)
    /\ wire' = [wire EXCEPT ![c] = SubSeq(@, k + 1, Len(@))]
    /\ ParseAndTest(c, data[c] \o SubSeq(wire[c], 1, k))
    /\ UNCHANGED << conn, peer, handled, sent, malformed, eof_seen, send_result,
                    serverVars >>
    /\ UNCHANGED callVars

\* recv returns '' : the remote end closed and everything was read
RunRecvEmpty(c) ==
    /\ run_pc[c] = "recv"
    /\ peer[c] = "closed"
    /\ wire[c] = <<>>
    /\ eof_seen' = [eof_seen EXCEPT ![c] = IF @ = 1 THEN 2 ELSE 1]
    /\ ParseAndTest(c, data[c] \o <<>>)
    /\ UNCHANGED << conn, peer, wire, handled, sent, malformed, send_result,
                    serverVars >>
    /\ UNCHANGED callVars

\* mutant: the return after a raising recv skips the finally clause
RunRecvRaiseLeavingOpen(c) ==
    /\ run_pc[c] = "recv"
    /\ peer[c] = "reset"
    /\ run_pc' = [run_pc EXCEPT ![c] = "done"]
    /\ exit_kind' = [exit_kind EXCEPT ![c] = "disconnect"]
    /\ UNCHANGED << conn, peer, wire, data, number_of_bytes, connection_closed,
                    handled, sent, malformed, eof_seen, send_result, serverVars >>
    /\ UNCHANGED callVars

\* recv raises: return, then the finally clause
RunRecvRaise(c) ==
    /\ run_pc[c] = "recv"
    /\ peer[c] = "reset"
    /\ WorkerStep(c, data[c], number_of_bytes[c], "done", "disconnect")
    /\ UNCHANGED << conn, peer, wire, handled, sent, malformed, eof_seen,
                    send_result, serverVars >>
    /\ UNCHANGED callVars

\* mutant: the handler's exception is swallowed and the loop goes on
RunDeliverSwallowing(c, raises) ==
    /\ run_pc[c] = "deliver"
    /\ handled' = [handled EXCEPT ![c] = Append(@, SliceTo(data[c], number_of_bytes[c]))]
    /\ WorkerStep(c, SliceFrom(data[c], number_of_bytes[c]), U32Zero, "top",
                  IF raises THEN "handler" ELSE "none")
    /\ UNCHANGED << conn, peer, wire, sent, malformed, eof_seen, send_result,
                    serverVars >>
    /\ UNCHANGED callVars

\* msg = data[:n]; data = data[n:]; n = 0; self._handle_msg(msg), which may
\* raise (unpackb or _handle_decoded)
RunDeliver(c, raises) ==
    /\ run_pc[c] = "deliver"
    /\ handled' = [handled EXCEPT ![c] = Append(@, SliceTo(data[c], number_of_bytes[c]))]
    /\ IF raises
       THEN WorkerStep(c, SliceFrom(data[c], number_of_bytes[c]), U32Zero, "done", "handler")
       ELSE WorkerStep(c, SliceFrom(data[c], number_of_bytes[c]), U32Zero, "top", "none")
    /\ UNCHANGED << conn, peer, wire, sent, malformed, eof_seen, send_result,
                    serverVars >>
    /\ UNCHANGED callVars

\* ----------------------------------------------- one connection on its own
FrameNext ==
    \/ \E m \in ClientMsgs : ClientSend(1, m)
    \/ PeerWriteEmptyFrame(1)
    \/ \E pre \in BadPrefixes : PeerWriteBadPrefix(1, pre)
    \/ \E how \in {"closed", "reset"} : PeerClose(1, how)
    \/ RunTop(1)
    \/ \E k \in 1 .. (MaxFrames * (MaxLen + 4)) : RunRecvChunk(1, k)
    \/ RunRecvEmpty(1)
    \/ RunRecvRaise(1)
    \/ \E r \in BOOLEAN : RunDeliver(1, r)

FrameSpec == InitFrame /\ [][FrameNext]_vars

\* The handler thread is scheduled whenever it can take a step.
FrameFairSpec ==
    /\ FrameSpec
    /\ WF_vars(RunTop(1))
    /\ WF_vars(\E k \in 1 .. (MaxFrames * (MaxLen + 4)) : RunRecvChunk(1, k))
    /\ WF_vars(RunRecvEmpty(1))
    /\ WF_vars(RunRecvRaise(1))
    /\ WF_vars(\E r \in BOOLEAN : RunDeliver(1, r))

\* ================================================================ Server
\* getattr(self, '_sock', None)
Getattr_sock == IF _sock = Unset THEN None ELSE _sock

is_alive == IF _block = None THEN FALSE ELSE Getattr_sock # None

\* serve_forever(host, port, block) up to the start of _serve_forever: in a
\* new thread when block is False, in the calling thread when it is True
ServeForever(block) ==
    /\ main_pc = "idle"
    /\ IF _block # None
       THEN /\ main_pc' = "raised"
            /\ UNCHANGED serve_pc
       ELSE /\ main_pc' = IF block THEN "blocked" ELSE "started"
            /\ serve_pc' = "bind"
    /\ UNCHANGED << conn, connVars, _block, _shutdown_event, _sock, lsock,
                    serve_sock, fd_ready, serve_raised, sd_pc, sd_sock, sd_returned >>
    /\ UNCHANGED callVars

\* self._block = block: right after thread.start() when block is False,
\* after _serve_forever has returned normally when block is True
ServeForeverSetBlock ==
    /\ \/ main_pc = "started"
       \/ main_pc = "blocked" /\ serve_pc = "done"
    /\ IF main_pc = "blocked" /\ serve_raised
       THEN /\ main_pc' = "raised"
            /\ UNCHANGED _block
       ELSE /\ main_pc' = "returned"
            /\ _block' = IF main_pc = "blocked" THEN "True" ELSE "False"
    /\ UNCHANGED << conn, connVars, _shutdown_event, _sock, lsock, serve_pc,
                    serve_sock, fd_ready, serve_raised, sd_pc, sd_sock, sd_returned >>
    /\ UNCHANGED callVars

\* socket(), setsockopt, bind, listen
ServeBind ==
    /\ serve_pc = "bind"
    /\ lsock' = "listening"
    /\ serve_pc' = "publish"
    /\ UNCHANGED << conn, connVars, _block, _shutdown_event, _sock, main_pc,
                    serve_sock, fd_ready, serve_raised, sd_pc, sd_sock, sd_returned >>
    /\ UNCHANGED callVars

\* self._sock = sock
ServePublish ==
    /\ serve_pc = "publish"
    /\ _sock' = ListenSock
    /\ serve_pc' = "while"
    /\ UNCHANGED << conn, connVars, _block, _shutdown_event, lsock, main_pc,
                    serve_sock, fd_ready, serve_raised, sd_pc, sd_sock, sd_returned >>
    /\ UNCHANGED callVars

\* while not self._shutdown_event.is_set()
ServeWhile ==
    /\ serve_pc = "while"
    /\ serve_pc' = IF _shutdown_event THEN "finally" ELSE "read1"
    /\ UNCHANGED << conn, connVars, _block, _shutdown_event, _sock, lsock, main_pc,
                    serve_sock, fd_ready, serve_raised, sd_pc, sd_sock, sd_returned >>
    /\ UNCHANGED callVars

\* sock = self._sock; if sock is None: break   (before select)
ServeRead1 ==
    /\ serve_pc = "read1"
    /\ serve_sock' = _sock
    /\ serve_pc' = IF _sock = None THEN "finally" ELSE "select"
    /\ UNCHANGED << conn, connVars, _block, _shutdown_event, _sock, lsock, main_pc,
                    fd_ready, serve_raised, sd_pc, sd_sock, sd_returned >>
    /\ UNCHANGED callVars

\* select returns because a connection waits in the backlog
ServeSelectReady ==
    /\ serve_pc = "select"
    /\ lsock = "listening"
    /\ \E c \in Conns : conn[c] = "pending"
    /\ fd_ready' = TRUE
    /\ serve_pc' = "chk2"
    /\ UNCHANGED << conn, connVars, _block, _shutdown_event, _sock, lsock, main_pc,
                    serve_sock, serve_raised, sd_pc, sd_sock, sd_returned >>
    /\ UNCHANGED callVars

\* select on the closed socket ("If closed returns properly"): it raises,
\* or returns with the socket reported or not
ServeSelectClosed(outcome) ==
    /\ serve_pc = "select"
    /\ lsock = "closed"
    /\ IF outcome = "raise"
       THEN /\ serve_raised' = TRUE
            /\ serve_pc' = "finally"
            /\ UNCHANGED fd_ready
       ELSE /\ fd_ready' = (outcome = "ready")
            /\ serve_pc' = "chk2"
            /\ UNCHANGED serve_raised
    /\ UNCHANGED << conn, connVars, _block, _shutdown_event, _sock, lsock, main_pc,
                    serve_sock, sd_pc, sd_sock, sd_returned >>
    /\ UNCHANGED callVars

\* if self._shutdown_event.is_set(): break   (after select)
ServeChk2 ==
    /\ serve_pc = "chk2"
    /\ serve_pc' = IF _shutdown_event THEN "finally" ELSE "read2"
    /\ UNCHANGED << conn, connVars, _block, _shutdown_event, _sock, lsock, main_pc,
                    serve_sock, fd_ready, serve_raised, sd_pc, sd_sock, sd_returned >>
    /\ UNCHANGED callVars

\* sock = self._sock; if sock is None: break   (after select)
ServeRead2 ==
    /\ serve_pc = "read2"
    /\ serve_sock' = _sock
    /\ serve_pc' = IF _sock = None THEN "finally" ELSE "accept"
    /\ UNCHANGED << conn, connVars, _block, _shutdown_event, _sock, lsock, main_pc,
                    fd_ready, serve_raised, sd_pc, sd_sock, sd_returned >>
    /\ UNCHANGED callVars

\* mutant: a failure constructing or starting the handler leaves the loop
ServeAcceptPropagating(c, ok) ==
    /\ serve_pc = "accept"
    /\ IF ~fd_ready
       THEN /\ serve_pc' = "while"
            /\ UNCHANGED << conn, run_pc, serve_raised >>
       ELSE IF lsock = "closed"
       THEN /\ serve_raised' = TRUE
            /\ serve_pc' = "finally"
            /\ UNCHANGED << conn, run_pc >>
       ELSE /\ conn[c] = "pending"
            /\ conn' = [conn EXCEPT ![c] = "accepted"]
            /\ run_pc' = [run_pc EXCEPT ![c] = IF ok THEN "top" ELSE @]
            /\ serve_pc' = IF ok THEN "while" ELSE "finally"
            /\ serve_raised' = ~ok
    /\ UNCHANGED << peer, wire, data, number_of_bytes, connection_closed, exit_kind,
                    handled, sent, malformed, eof_seen, send_result,
                    _block, _shutdown_event, _sock, lsock, main_pc, serve_sock,
                    fd_ready, sd_pc, sd_sock, sd_returned >>
    /\ UNCHANGED callVars

\* if fd_sets[0]: sock.accept(), then construct and start the handler inside
\* try/except; accept on the closed socket raises out of the loop
ServeAccept(c, ok) ==
    /\ serve_pc = "accept"
    /\ IF ~fd_ready
       THEN /\ serve_pc' = "while"
            /\ UNCHANGED << conn, run_pc, serve_raised >>
       ELSE IF lsock = "closed"
       THEN /\ serve_raised' = TRUE
            /\ serve_pc' = "finally"
            /\ UNCHANGED << conn, run_pc >>
       ELSE /\ conn[c] = "pending"
            /\ conn' = [conn EXCEPT ![c] = "accepted"]
            /\ run_pc' = [run_pc EXCEPT ![c] = IF ok THEN "top" ELSE @]
            /\ serve_pc' = "while"
            /\ UNCHANGED serve_raised
    /\ UNCHANGED << peer, wire, data, number_of_bytes, connection_closed, exit_kind,
                    handled, sent, malformed, eof_seen, send_result,
                    _block, _shutdown_event, _sock, lsock, main_pc, serve_sock,
                    fd_ready, sd_pc, sd_sock, sd_returned >>
    /\ UNCHANGED callVars

\* sock.accept() raises on the open socket (the connection was aborted, no
\* descriptor is left, ...): the call is outside the inner try, so the
\* exception leaves the loop
ServeAcceptRaise ==
    /\ serve_pc = "accept"
    /\ fd_ready
    /\ lsock = "listening"
    /\ serve_raised' = TRUE
    /\ serve_pc' = "finally"
    /\ UNCHANGED << conn, connVars, _block, _shutdown_event, _sock, lsock, main_pc,
                    serve_sock, fd_ready, sd_pc, sd_sock, sd_returned >>
    /\ UNCHANGED callVars

\* finally: self.shutdown()
ServeFinally ==
    /\ serve_pc = "finally"
    /\ serve_pc' = "shutdown"
    /\ sd_pc' = [sd_pc EXCEPT ![ServeThread] = "set"]
    /\ UNCHANGED << conn, connVars, _block, _shutdown_event, _sock, lsock, main_pc,
                    serve_sock, fd_ready, serve_raised, sd_sock, sd_returned >>
    /\ UNCHANGED callVars

\* ------------------------------------------------------- Server.shutdown
\* an application thread calls shutdown()
ShutdownCall(t) ==
    /\ t \in AppThreads
    /\ sd_pc[t] = "idle"
    /\ sd_pc' = [sd_pc EXCEPT ![t] = "set"]
    /\ UNCHANGED << conn, connVars, _block, _shutdown_event, _sock, lsock, main_pc,
                    serve_pc, serve_sock, fd_ready, serve_raised, sd_sock, sd_returned >>
    /\ UNCHANGED callVars

\* shutdown returns to its caller; _serve_forever ends when its own call returns
ShutdownReturn(t) ==
    /\ sd_pc' = [sd_pc EXCEPT ![t] = "idle"]
    /\ sd_sock' = [sd_sock EXCEPT ![t] = None]
    /\ sd_returned' = TRUE
    /\ serve_pc' = IF t = ServeThread THEN "done" ELSE serve_pc

\* self._shutdown_event.set()
ShutdownSet(t) ==
    /\ sd_pc[t] = "set"
    /\ _shutdown_event' = TRUE
    /\ sd_pc' = [sd_pc EXCEPT ![t] = "get"]
    /\ UNCHANGED << conn, connVars, _block, _sock, lsock, main_pc, serve_pc,
                    serve_sock, fd_ready, serve_raised, sd_sock, sd_returned >>
    /\ UNCHANGED callVars

\* sock = getattr(self, '_sock', None); if sock is not None: ...
ShutdownGet(t) ==
    /\ sd_pc[t] = "get"
    /\ IF Getattr_sock = None
       THEN ShutdownReturn(t)
       ELSE /\ sd_sock' = [sd_sock EXCEPT ![t] = Getattr_sock]
            /\ sd_pc' = [sd_pc EXCEPT ![t] = "clear"]
            /\ UNCHANGED << sd_returned, serve_pc >>
    /\ UNCHANGED << conn, connVars, _block, _shutdown_event, _sock, lsock, main_pc,
                    serve_sock, fd_ready, serve_raised >>
    /\ UNCHANGED callVars

\* mutant: the socket is closed while self._sock still refers to it
ShutdownCloseBeforeClear(t) ==
    /\ sd_pc[t] = "clear"
    /\ lsock' = "closed"
    /\ sd_pc' = [sd_pc EXCEPT ![t] = "close"]
    /\ UNCHANGED << conn, connVars, _block, _shutdown_event, _sock, main_pc, serve_pc,
                    serve_sock, fd_ready, serve_raised, sd_sock, sd_returned >>
    /\ UNCHANGED callVars

\* self._sock = None
ShutdownClear(t) ==
    /\ sd_pc[t] = "clear"
    /\ _sock' = None
    /\ sd_pc' = [sd_pc EXCEPT ![t] = "close"]
    /\ UNCHANGED << conn, connVars, _block, _shutdown_event, lsock, main_pc, serve_pc,
                    serve_sock, fd_ready, serve_raised, sd_sock, sd_returned >>
    /\ UNCHANGED callVars

\* mutant: shutdown returns without closing the socket
ShutdownWithoutClose(t) ==
    /\ sd_pc[t] = "close"
    /\ ShutdownReturn(t)
    /\ UNCHANGED << conn, connVars, _block, _shutdown_event, _sock, lsock, main_pc,
                    serve_sock, fd_ready, serve_raised >>
    /\ UNCHANGED callVars

\* mutant: shutdown also closes the sockets of the accepted connections
ShutdownCloseEverything(t) ==
    /\ sd_pc[t] = "close"
    /\ lsock' = "closed"
    /\ connection_closed' = [c \in Conns |-> connection_closed[c] \/ conn[c] = "accepted"]
    /\ ShutdownReturn(t)
    /\ UNCHANGED << conn, peer, wire, run_pc, data, number_of_bytes, exit_kind,
                    handled, sent, malformed, eof_seen, send_result,
                    _block, _shutdown_event, _sock, main_pc,
                    serve_sock, fd_ready, serve_raised >>
    /\ UNCHANGED callVars

\* try: sock.close() except: print_exc()
ShutdownClose(t) ==
    /\ sd_pc[t] = "close"
    /\ lsock' = "closed"
    /\ ShutdownReturn(t)
    /\ UNCHANGED << conn, connVars, _block, _shutdown_event, _sock, main_pc,
                    serve_sock, fd_ready, serve_raised >>
    /\ UNCHANGED callVars

\* A client connects to the listening socket (Client.__init__) and waits in
\* the backlog until accepted.
ClientConnect(c) ==
    /\ conn[c] = "none"
    /\ lsock = "listening"
    /\ conn' = [conn EXCEPT ![c] = "pending"]
    /\ UNCHANGED << connVars, serverVars >>
    /\ UNCHANGED callVars

\* ------------------------------------------------------- Server.get_port
\* an application thread calls get_port()
GetPortCall ==
    /\ gp_pc \in {"idle", "done"}
    /\ gp_pc' = "wait"
    /\ gp_result' = "none"
    /\ UNCHANGED << conn, connVars, serverVars, second_pc >>

\* wait_for_condition(lambda: hasattr(self, '_sock'), timeout=5.0): the loop
\* ends when the attribute exists
GetPortWaitDone ==
    /\ gp_pc = "wait"
    /\ _sock # Unset
    /\ gp_pc' = "read"
    /\ UNCHANGED << conn, connVars, serverVars, gp_result, second_pc >>

\* ... or when the condition is still false after the timeout; the value
\* wait_for_condition returns is not looked at
GetPortTimeout ==
    /\ gp_pc = "wait"
    /\ _sock = Unset
    /\ gp_pc' = "read"
    /\ UNCHANGED << conn, connVars, serverVars, gp_result, second_pc >>

\* self._sock .getsockname : AttributeError when the attribute does not
\* exist or is None
GetPortRead ==
    /\ gp_pc = "read"
    /\ IF _sock = ListenSock
       THEN /\ gp_pc' = "call"
            /\ UNCHANGED gp_result
       ELSE /\ gp_pc' = "done"
            /\ gp_result' = "error"
    /\ UNCHANGED << conn, connVars, serverVars, second_pc >>

\* mutant: the port is handed out whatever the state of the socket
GetPortGetsocknameUnchecked ==
    /\ gp_pc = "call"
    /\ gp_pc' = "done"
    /\ gp_result' = "port"
    /\ UNCHANGED << conn, connVars, serverVars, second_pc >>

\* sock.getsockname()[1] : raises on a socket that has been closed
GetPortGetsockname ==
    /\ gp_pc = "call"
    /\ gp_pc' = "done"
    /\ gp_result' = IF lsock = "listening" THEN "port" ELSE "error"
    /\ UNCHANGED << conn, connVars, serverVars, second_pc >>

PortNext ==
    \/ GetPortCall
    \/ GetPortWaitDone
    \/ GetPortTimeout
    \/ GetPortRead
    \/ GetPortGetsockname

\* --------------------------------------- a second call of serve_forever
\* serve_forever is called again (by any thread) after a first call has
\* begun: the test of self._block
SecondServeForever ==
    /\ main_pc # "idle"
    /\ second_pc = "idle"
    /\ second_pc' = IF _block # None THEN "raised" ELSE "passed"
    /\ UNCHANGED << conn, connVars, serverVars, gp_pc, gp_result >>

\* the second call goes on into _serve_forever (in a new thread or in the
\* caller) and creates and binds a listening socket of its own.  The call is
\* followed up to here.
SecondServeBind ==
    /\ second_pc = "passed"
    /\ second_pc' = "bound"
    /\ UNCHANGED << conn, connVars, serverVars, gp_pc, gp_result >>

SecondNext ==
    \/ SecondServeForever
    \/ SecondServeBind

\* ------------------------------------------------------ the listener alone:
\* its accept loop, two application threads calling shutdown, and clients
\* that connect (accepted connections get their handler started, no traffic)
AcceptLoopNext ==
    \/ ServeBind
    \/ ServePublish
    \/ ServeWhile
    \/ ServeRead1
    \/ ServeSelectReady
    \/ ServeChk2
    \/ ServeRead2
    \/ \E c \in Conns, ok \in BOOLEAN : ServeAccept(c, ok)

ThreadNext ==
    \/ AcceptLoopNext
    \/ \E o \in {"raise", "ready", "empty"} : ServeSelectClosed(o)
    \/ ServeFinally
    \/ \E t \in Threads : ShutdownSet(t)
    \/ \E t \in Threads : ShutdownGet(t)
    \/ \E t \in Threads : ShutdownClear(t)
    \/ \E t \in Threads : ShutdownClose(t)

StartNext ==
    \/ \E b \in BOOLEAN : ServeForever(b)
    \/ ServeForeverSetBlock
    \/ \E c \in Conns : ClientConnect(c)

ListenerNext ==
    \/ ThreadNext
    \/ StartNext
    \/ \E t \in AppThreads : ShutdownCall(t)

ListenerSpec == Init /\ [][ListenerNext]_vars

\* the same listener when sock.accept() may also fail on the open socket
AcceptFailNext ==
    \/ ListenerNext
    \/ ServeAcceptRaise

AcceptFailSpec == Init /\ [][AcceptFailNext]_vars

\* the listener and an application thread calling get_port
PortSpec == Init /\ [][ListenerNext \/ PortNext]_vars

\* the listener and a second call of serve_forever
StartSpec == Init /\ [][ListenerNext \/ SecondNext]_vars

\* the steps of a thread inside shutdown, and all steps of the thread that
\* runs _serve_forever
ShutdownStep(t) == ShutdownSet(t) \/ ShutdownGet(t) \/ ShutdownClear(t) \/ ShutdownClose(t)
ServeStep ==
    \/ AcceptLoopNext
    \/ \E o \in {"raise", "ready", "empty"} : ServeSelectClosed(o)
    \/ ServeFinally
    \/ ShutdownStep(ServeThread)

\* Every started thread keeps being scheduled: the accept loop and each
\* thread inside shutdown; select returns once its socket is closed (source
\* line 177).  Nothing is assumed about the application (whether it calls
\* shutdown) or about the clients.
ListenerFairSpec ==
    /\ ListenerSpec
    /\ WF_vars(ServeStep)
    /\ \A t \in AppThreads : WF_vars(ShutdownStep(t))

\* ------------------------------------------- a running listener with its
\* connections: each client sends one small message, may be reset, and the
\* handler of a payload may raise
ServerMsgs == {Materialised(<< 1 >>)}

WorkerNext ==
    \/ \E c \in Conns : RunTop(c)
    \/ \E c \in Conns : \E k \in 1 .. (MaxFrames * (MaxLen + 4)) : RunRecvChunk(c, k)
    \/ \E c \in Conns : RunRecvRaise(c)
    \/ \E c \in Conns : \E r \in BOOLEAN : RunDeliver(c, r)

PeerNext ==
    \/ \E c \in Conns : \E m \in ServerMsgs : sent[c] = <<>> /\ ClientSend(c, m)
    \/ \E c \in Conns : PeerClose(c, "reset")

Next ==
    \/ AcceptLoopNext
    \/ StartNext
    \/ WorkerNext
    \/ PeerNext

Spec == Init /\ [][Next]_vars

\* The accept loop keeps being scheduled.
FairSpec == Spec /\ WF_vars(AcceptLoopNext)

\* ------------------------------------------- the same listener with remote
\* ends that may also write a disallowed length prefix
IsolationNext ==
    \/ Next
    \/ \E c \in Conns : \E pre \in BadPrefixes : PeerWriteBadPrefix(c, pre)

IsolationSpec == Init /\ [][IsolationNext]_vars

\* ------------------------------------------- the listener being shut down
\* while a connection carries traffic.  serve_forever(block=False) has
\* returned to its caller; the thread it started has not run yet.
InitDrain ==
    /\ conn = [c \in Conns |-> "none"]
    /\ run_pc = [c \in Conns |-> "none"]
    /\ InitConns
    /\ _block = "False"
    /\ _shutdown_event = FALSE
    /\ _sock = Unset
    /\ lsock = "none"
    /\ main_pc = "returned"
    /\ serve_pc = "bind"
    /\ serve_sock = None
    /\ fd_ready = FALSE
    /\ serve_raised = FALSE
    /\ sd_pc = [t \in Threads |-> "idle"]
    /\ sd_sock = [t \in Threads |-> None]
    /\ sd_returned = FALSE
    /\ gp_pc = "idle"
    /\ gp_result = "none"
    /\ second_pc = "idle"

DrainNext ==
    \/ ThreadNext
    \/ \E c \in Conns : ClientConnect(c)
    \/ ServeAcceptRaise
    \/ ShutdownCall("app1")
    \/ \E m \in ServerMsgs : ClientSend(1, m)
    \/ PeerClose(1, "reset")
    \/ RunTop(1)
    \/ \E k \in 1 .. (MaxFrames * (MaxLen + 4)) : RunRecvChunk(1, k)
    \/ RunRecvRaise(1)
    \/ \E r \in BOOLEAN : RunDeliver(1, r)

DrainSpec == InitDrain /\ [][DrainNext]_vars

\* =============================================================== framing claims
IsPrefix(s, t) == Len(s) <= Len(t) /\ SubSeq(t, 1, Len(s)) = s
\* everything written on c so far has been received and run waits in recv
AllArrived(c) == wire[c] = <<>> /\ run_pc[c] = "recv"
NoEmptyPayload(c) == \A i \in 1 .. Len(sent[c]) : sent[c][i] # <<>>

\* C1: for every sequence of framed payloads and every way recv cuts the
\* bytes into chunks, _handle_msg is passed the payloads in the order sent,
\* none split, merged, dropped or duplicated; once every byte has been
\* received, exactly the payloads sent have been passed.
C1_ChunkIndependence ==
    \A c \in Conns :
        ~malformed[c] =>
            /\ IsPrefix(handled[c], sent[c])
            /\ AllArrived(c) => handled[c] = sent[c]

\* The same statement for streams without an empty payload (what pack_obj
\* can produce, packb never returning an empty string).
FramingOfNonEmptyPayloads ==
    \A c \in Conns :
        (~malformed[c] /\ NoEmptyPayload(c)) =>
            /\ IsPrefix(handled[c], sent[c])
            /\ AllArrived(c) => handled[c] = sent[c]

\* C2: the frame of one payload p, 0 <= len(p) < 2^31-1, fed to a fresh
\* run, makes run emit exactly one message, and that message is p.
C2_RoundTrip ==
    \A c \in Conns :
        (~malformed[c] /\ Len(sent[c]) = 1 /\ AllArrived(c)) =>
            handled[c] = << sent[c][1] >>

\* C3: a frame with prefix 0 makes run emit exactly one payload, the empty
\* one, and the frames after it are still decoded: once every byte has been
\* received there is one emitted payload per frame, empty where the frame's
\* payload was empty and equal to the frame's payload elsewhere.
C3_ZeroLengthFrame ==
    \A c \in Conns :
        (~malformed[c] /\ ~NoEmptyPayload(c) /\ AllArrived(c)) =>
            /\ Len(handled[c]) = Len(sent[c])
            /\ \A i \in 1 .. Len(sent[c]) : handled[c][i] = sent[c][i]

\* C4: a parsed length prefix outside [0, 2^31-1) ends run with a protocol
\* error; run is never left waiting for that many payload bytes.
C4_MalformedPrefixRejected ==
    \A c \in Conns :
        ~U32LtMaxInt32(number_of_bytes[c]) =>
            (run_pc[c] = "done" /\ exit_kind[c] = "assert")

C6_TerminatesOnEndOfStream ==
    \A c \in Conns :
        (eof_seen[c] # 0 \/ (peer[c] = "reset" /\ run_pc[c] = "recv"))
            ~> (run_pc[c] = "done" /\ connection_closed[c])

\* The part of C6 that the code does provide: a raising recv ends run.
TerminatesOnTransportError ==
    \A c \in Conns :
        (peer[c] = "reset" /\ run_pc[c] = "recv")
            ~> (run_pc[c] = "done" /\ connection_closed[c])

\* ============================================================== listener claims
\* what belongs to connection d: its socket, its buffer and parser state,
\* its worker
ConnState(d) == << conn[d], peer[d], wire[d], run_pc[d], data[d], number_of_bytes[d],
                   connection_closed[d], exit_kind[d], handled[d] >>

\* C7: when _handle_msg raises on a connection, that connection's worker
\* closes its socket and exits in that step and is passed no further
\* payload afterwards; the step changes nothing of the listener and nothing
\* of any other connection.
C7_HandlerFailureContained ==
    [][ \A c \in Conns :
          /\ (exit_kind[c] # "handler" /\ exit_kind'[c] = "handler") =>
                /\ run_pc'[c] = "done"
                /\ connection_closed'[c]
                /\ serverVars' = serverVars
                /\ \A d \in Conns \ {c} : ConnState(d)' = ConnState(d)
          /\ exit_kind[c] = "handler" =>
                /\ run_pc'[c] = "done"
                /\ connection_closed'[c]
                /\ handled'[c] = handled[c]
      ]_vars

\* one worker has died of a handler failure while the accept loop waits in
\* select and another worker, still running, is about to pass a payload on
C7_Witness ==
    \E c \in Conns, d \in Conns :
        /\ c # d
        /\ exit_kind[c] = "handler"
        /\ connection_closed[c]
        /\ run_pc[d] = "deliver"
        /\ ~connection_closed[d]
        /\ serve_pc = "select"
        /\ lsock = "listening"

LoopPcs == {"while", "read1", "select", "chk2", "read2", "accept"}

\* C8: if an application thread is inside shutdown while the accept loop
\* runs (at any of its positions), _serve_forever eventually returns, and
\* from then on is_alive() is False.
C8_ShutdownLiveness ==
    ((\E t \in AppThreads : sd_pc[t] # "idle") /\ serve_pc \in LoopPcs)
        ~> [](serve_pc = "done" /\ ~is_alive)

\* the listener was started non-blocking and waits in select with nothing
\* to accept; an application thread inside shutdown has cleared _sock and is
\* about to close the socket
C8_Witness ==
    /\ serve_pc = "select"
    /\ _block = "False"
    /\ \A c \in Conns : conn[c] # "pending"
    /\ \E t \in AppThreads : sd_pc[t] = "close" /\ sd_sock[t] = ListenSock
    /\ _sock = None
    /\ lsock = "listening"

\* C9: however the shutdown calls of the application threads and of
\* _serve_forever's finally clause interleave, _sock never refers to a
\* closed socket (it is cleared before the close), and once _serve_forever
\* has returned and no call is in progress the listener is stopped: socket
\* closed, _sock None, is_alive() False.
C9_ShutdownIdempotent ==
    /\ _sock = ListenSock => lsock = "listening"
    /\ lsock = "closed" => _sock = None
    /\ (serve_pc = "done" /\ \A t \in Threads : sd_pc[t] = "idle") =>
          (lsock = "closed" /\ _sock = None /\ ~is_alive)

\* two application threads are inside shutdown at once, both took the
\* socket, one has closed it and returned to its caller, the other is about
\* to close it again; _serve_forever is in its own call of shutdown
C9_Witness ==
    /\ \E t \in AppThreads : sd_pc[t] = "close" /\ sd_sock[t] = ListenSock
    /\ lsock = "closed"
    /\ serve_pc = "shutdown"
    /\ sd_returned

\* C10: once some call of shutdown has returned, the accept loop accepts no
\* further connection and starts no further ConnectionHandler.
C10_NoAcceptAfterShutdown ==
    [][ sd_returned =>
          \A c \in Conns :
              /\ conn'[c] = "accepted" => conn[c] = "accepted"
              /\ run_pc'[c] # "none" => run_pc[c] # "none"
      ]_vars

\* The same with one caller: what holds once a call that itself closed the
\* socket has returned.
NoAcceptAfterSocketClosed ==
    [][ lsock = "closed" =>
          \A c \in Conns : conn'[c] = "accepted" => conn[c] = "accepted"
      ]_vars

\* ====================================================== containment claims
\* the handler of connection c could not be constructed or started
StartFailed(c) == conn[c] = "accepted" /\ run_pc[c] = "none"

\* C11: the step in which constructing or starting the ConnectionHandler of
\* an accepted connection raises goes back to the head of the accept loop
\* with the listening socket open and published, no shutdown requested, and
\* nothing of another connection changed.
C11_BadConnectionContained ==
    [][ \A c \in Conns :
          (~StartFailed(c) /\ StartFailed(c)') =>
              /\ serve_pc' = "while"
              /\ ~serve_raised'
              /\ lsock' = "listening"
              /\ _sock' = ListenSock
              /\ ~_shutdown_event'
              /\ \A d \in Conns \ {c} : ConnState(d)' = ConnState(d)
      ]_vars

\* The rest of C11: a connection that waits in the backlog after such a
\* failure is eventually accepted (the accept loop being scheduled).
LaterConnectionsAccepted ==
    \A c \in Conns, d \in Conns :
        (StartFailed(c) /\ conn[d] = "pending") ~> (conn[d] = "accepted")

\* after the handler of one connection failed to start, a later connection
\* was accepted and its worker has passed a payload on
C11_Witness ==
    \E c \in Conns, d \in Conns :
        /\ StartFailed(c)
        /\ conn[d] = "accepted"
        /\ run_pc[d] \in {"top", "recv"}
        /\ handled[d] # <<>>
        /\ lsock = "listening"
        /\ serve_pc \in LoopPcs

\* some application thread has called Server.shutdown (while the accept
\* loop runs only application threads can have set the event)
AppShutdownCalled == _shutdown_event \/ \E t \in AppThreads : sd_pc[t] # "idle"

\* C12: as long as no application thread has called shutdown, no step takes
\* _serve_forever out of its accept loop and none closes the listening
\* socket; a raising sock.accept() in particular is contained.
C12_OnlyShutdownStopsLoop ==
    [][ (serve_pc \in LoopPcs /\ ~AppShutdownCalled) =>
            /\ serve_pc' \in LoopPcs
            /\ lsock' = "listening"
      ]_vars

\* The statement without the accept step's own failure: the loop is left
\* only at one of its tests of the shutdown event and of _sock, or because
\* sock.accept() or select raised.
LoopLeftOnlyByShutdownOrRaise ==
    [][ (serve_pc \in LoopPcs /\ serve_pc' \notin LoopPcs) =>
            (AppShutdownCalled \/ (serve_pc = "accept" /\ serve_raised'))
      ]_vars

\* run of connection a has parsed a length prefix outside [0, 2^31-1)
BadPrefixParsed(a) == ~U32LtMaxInt32(number_of_bytes[a])

\* C13: with connections a and b accepted by the same listener, once a's
\* worker has received a malformed length prefix it has terminated and
\* closed a's socket; the step in which it receives the prefix changes
\* nothing of b, and b's frames are decoded and delivered as sent.
C13_Isolation ==
    /\ [](\A a \in Conns : \A b \in Conns \ {a} :
            (conn[a] = "accepted" /\ conn[b] = "accepted" /\ BadPrefixParsed(a)) =>
                /\ run_pc[a] = "done"
                /\ connection_closed[a]
                /\ ~malformed[b] => IsPrefix(handled[b], sent[b]))
    /\ [][ \A a \in Conns : \A b \in Conns \ {a} :
              (~BadPrefixParsed(a) /\ BadPrefixParsed(a)') =>
                  ConnState(b)' = ConnState(b)
          ]_vars

\* The part of C13 about the other connection: the step of a's worker that
\* receives the malformed prefix changes nothing of b, and whatever happens
\* on a, a well-formed stream on b is delivered as sent.
OtherConnectionUntouched ==
    /\ [](\A a \in Conns : \A b \in Conns \ {a} :
            (BadPrefixParsed(a) /\ ~malformed[b]) =>
                /\ IsPrefix(handled[b], sent[b])
                /\ AllArrived(b) => handled[b] = sent[b])
    /\ [][ \A a \in Conns : \A b \in Conns \ {a} :
              (~BadPrefixParsed(a) /\ BadPrefixParsed(a)') =>
                  ConnState(b)' = ConnState(b)
          ]_vars

\* a's worker waits in recv for the bytes of the malformed length, its
\* socket open, while b's worker has delivered the frame sent on b
IsolationScenario ==
    \E a \in Conns : \E b \in Conns \ {a} :
        /\ BadPrefixParsed(a)
        /\ run_pc[a] = "recv"
        /\ ~connection_closed[a]
        /\ sent[b] # <<>>
        /\ handled[b] = sent[b]

\* ========================================================= start-up claims
\* serve_forever has not been called
NeverStarted == main_pc = "idle"

ShutdownOrExitStep ==
    \/ sd_pc' # sd_pc
    \/ lsock' # lsock
    \/ _sock' # _sock
    \/ _shutdown_event' # _shutdown_event
    \/ serve_pc' # serve_pc /\ serve_pc' \in {"finally", "shutdown", "done"}

\* C15: no step of shutdown and no step in which the accept loop exits
\* changes anything of an accepted connection (socket, worker position,
\* buffer, parser state, payloads passed on); and a connection's socket is
\* only ever closed by its own worker ending.
C15_ShutdownFrame ==
    /\ [][ ShutdownOrExitStep =>
              \A c \in Conns : conn[c] = "accepted" => ConnState(c)' = ConnState(c)
          ]_vars
    /\ [](\A c \in Conns :
            connection_closed[c] => (run_pc[c] = "done" /\ exit_kind[c] # "none"))

\* the listener is stopped (_serve_forever has returned, the listening
\* socket is closed) and the worker of connection 1, its socket open, has a
\* complete frame in its buffer and is about to pass the payload on
C15_Witness ==
    /\ serve_pc = "done"
    /\ lsock = "closed"
    /\ \E t \in AppThreads : sd_pc[t] = "idle" /\ _shutdown_event
    /\ conn[1] = "accepted"
    /\ run_pc[1] = "deliver"
    /\ ~connection_closed[1]

\* ===================================================== worker discipline
\* the buffer of c holds no complete frame: fewer than 4 bytes with no
\* length pending, fewer bytes than the pending length otherwise
NoCompleteFrameBuffered(c) ==
    IF U32IsZero(number_of_bytes[c])
    THEN Len(data[c]) < 4
    ELSE LenLtU32(Len(data[c]), number_of_bytes[c])

\* C16: every time run is about to call recv its buffer holds no complete
\* frame, so every complete frame a chunk brought has been passed to
\* _handle_msg before the next recv.
C16_BufferingDiscipline ==
    \A c \in Conns : run_pc[c] = "recv" => NoCompleteFrameBuffered(c)

\* The same statement for streams without an empty payload.
BufferingOfNonEmptyPayloads ==
    \A c \in Conns :
        (run_pc[c] = "recv" /\ NoEmptyPayload(c)) => NoCompleteFrameBuffered(c)

\* a call of recv by the worker of c
RecvStep(c) ==
    \/ \E k \in 1 .. (MaxFrames * (MaxLen + 4)) : RunRecvChunk(c, k)
    \/ RunRecvEmpty(c)
    \/ RunRecvRaise(c)

\* C17: whenever run has finished (recv raised, an assertion failed or the
\* handler raised) the worker has closed its socket; and once it has closed
\* the socket it is finished and can make no further call of recv.
C17_ClosedOnExit ==
    \A c \in Conns :
        /\ run_pc[c] = "done" =>
              (connection_closed[c] /\ exit_kind[c] \in {"disconnect", "assert", "handler"})
        /\ connection_closed[c] =>
              (run_pc[c] = "done" /\ ~ENABLED RecvStep(c))

\* The second half of C17 step by step: once the worker has closed its
\* socket no byte is taken off the connection, and its buffer, its parser
\* state and the payloads passed on stay as they are.
NoReadAfterClose ==
    [][ \A c \in Conns :
          connection_closed[c] =>
              /\ run_pc'[c] = "done"
              /\ connection_closed'[c]
              /\ IsPrefix(wire[c], wire'[c])
              /\ data'[c] = data[c]
              /\ number_of_bytes'[c] = number_of_bytes[c]
              /\ handled'[c] = handled[c]
              /\ eof_seen'[c] = eof_seen[c]
      ]_vars

\* the worker ended on a raising recv and closed its socket while bytes
\* it never read are still on the connection
C17_Witness ==
    \E c \in Conns :
        /\ run_pc[c] = "done"
        /\ exit_kind[c] = "disconnect"
        /\ connection_closed[c]
        /\ wire[c] # <<>>
        /\ handled[c] # <<>>

\* C18: every call of serve_forever made after a first call has begun
\* raises 'Server already started'; none gets past the test of _block and
\* none creates a second listening socket.
C18_SingleStart ==
    /\ [][ (second_pc = "idle" /\ second_pc' # "idle") => second_pc' = "raised" ]_vars
    /\ [](second_pc \notin {"passed", "bound"})

\* What the test of _block does give: a call made after the first call has
\* returned normally (it has assigned _block) is rejected.
SecondStartRejectedAfterReturn ==
    [][ (second_pc = "idle" /\ second_pc' # "idle" /\ main_pc = "returned") =>
            second_pc' = "raised"
      ]_vars

\* the first call is blocked inside _serve_forever, its accept loop waiting
\* in select, and a second call has bound a socket of its own
SecondListenerStarted ==
    /\ main_pc = "blocked"
    /\ serve_pc = "select"
    /\ lsock = "listening"
    /\ second_pc = "bound"

\* the listening socket is bound and the accept loop runs with no shutdown
\* requested
ListenerRunning ==
    /\ lsock = "listening"
    /\ serve_pc \in LoopPcs
    /\ ~AppShutdownCalled

\* C19: is_alive() is True in every state where the listening socket is
\* bound and the accept loop runs with no shutdown requested, whichever
\* mode the listener was started in; it is False before serve_forever is
\* called and once the listening socket has been closed by shutdown.
C19_IsAliveReflectsState ==
    /\ ListenerRunning => is_alive
    /\ NeverStarted => ~is_alive
    /\ lsock = "closed" => ~is_alive

\* What is_alive does give: True while the listener runs once a
\* non-blocking serve_forever has returned to its caller, False before
\* start and after shutdown.
IsAliveAfterNonBlockingStart ==
    /\ (ListenerRunning /\ main_pc = "returned") => is_alive
    /\ NeverStarted => ~is_alive
    /\ lsock = "closed" => ~is_alive

\* the listener was started in blocking mode, its accept loop waits in
\* select on the bound socket, no shutdown was requested, and is_alive() is
\* False
BlockingListenerNotAlive ==
    /\ main_pc = "blocked"
    /\ serve_pc = "select"
    /\ ListenerRunning
    /\ ~is_alive

====
